---- MODULE Spec2Model ----
(***************************************************************************)
(* Model of winit's src/platform/unix.rs: the Unix extension traits.       *)
(*                                                                         *)
(*   SpecKeys     KeyCodeExtScancode for KeyCode (from_scancode,           *)
(*                to_scancode)                                             *)
(*   SpecBuilder  WindowBuilderExtUnix for WindowBuilder: a chain of       *)
(*                platform-option setters on one builder                   *)
(*   SpecLoop     EventLoopExtUnix for EventLoop: the backend-forcing      *)
(*                constructors                                             *)
(*   SpecHandles  WindowExtUnix, EventLoopWindowTargetExtUnix and          *)
(*                MonitorHandleExtUnix: accessor calls on, and drops of,   *)
(*                the handles of a running program                         *)
(***************************************************************************)
EXTENDS Integers, Sequences, FiniteSets, TLC

VARIABLES
    kpc,        \* position of the scancode translation: "idle", "input", "from", "to"
    scancode,   \* the u32 handed to from_scancode
    key,        \* the KeyCode from_scancode returned
    back,       \* the Option<u32> to_scancode returned for key
    builder,    \* the WindowBuilder the setter chain passes along by value
    calls,      \* the setter calls that returned, in order: [op, arg]
    env,        \* which display servers can be reached: [x, wayland]
    loops,      \* the EventLoops the constructors returned, in order
    ctor,       \* the last constructor call: [op, main, backend, ret, n], or NoCtor
    windows,    \* Window name -> Window { window: LinuxWindow }
    targets,    \* target name -> EventLoopWindowTarget { p }
    monitor,    \* the MonitorHandle { inner }
    alive,      \* the windows and targets not yet dropped
    conn,       \* the Arc<XConnection> allocation: [strong, released]
    refs,       \* Arc<XConnection> clones handed to the caller and still held
    ret,        \* the last accessor call: [h, acc, value], or NoRet
    watch,      \* an accessor of a handle, <<h, acc>>, picked to be watched
    firstv,     \* None, or Some(value the watched accessor returned first)
    panic       \* None, or Some(message) once the process has died

keyVars == <<kpc, scancode, key, back>>

builderVars == <<builder, calls>>

loopVars == <<env, loops, ctor>>

handleVars == <<windows, targets, monitor, alive, conn, refs, ret, watch, firstv>>

vars ==
    <<kpc, scancode, key, back, builder, calls, env, loops, ctor,
      windows, targets, monitor, alive, conn, refs, ret, watch, firstv, panic>>

-----------------------------------------------------------------------------
(* Option<T> *)

None == <<"None">>

Some(v) == <<"Some", v>>

IsSome(o) == o[1] = "Some"

-----------------------------------------------------------------------------
(* KeyCodeExtScancode for KeyCode *)

\* A u32 is the pair <<high half, low half>> of its two 16-bit halves, so that
\* the whole 32-bit range is representable: its value is hi * 2^16 + lo.
Half == 65536

U32Lit(n) == <<n \div Half, n % Half>>

U32Max == <<Half - 1, Half - 1>>

\* the pattern n of a match arm compared with the low 16 bits only
Is_LowHalf(sc, n) == sc[2] = n % Half

\* the pattern n of a match arm matches the scancode sc
Is(sc, n) == sc = U32Lit(n)

\* Scancodes 0..MaxScancode are enumerated, with codes far above the table:
\* 9999, 65537 (equal to 1 in its low 16 bits) and u32::MAX.
MaxScancode == 160

FarScancode == U32Lit(9999)

WrapScancode == U32Lit(65537)

Scancodes ==
    {U32Lit(n) : n \in 0..MaxScancode} \cup {FarScancode, WrapScancode, U32Max}

NoKey == <<"NoKey">>

Named(k) == <<k>>

XKB(code) == <<"XKB", code>>

\* the fallback built without the code it was given
Unidentified_NoCode(native) == <<"Unidentified", <<"Unidentified">>>>

Unidentified(native) == <<"Unidentified", native>>

from_scancode(sc) ==
    CASE Is(sc, 1) -> Named("Escape")
      [] Is(sc, 2) -> Named("Digit1")
      [] Is(sc, 3) -> Named("Digit2")
      [] Is(sc, 4) -> Named("Digit3")
      [] Is(sc, 5) -> Named("Digit4")
      [] Is(sc, 6) -> Named("Digit5")
      [] Is(sc, 7) -> Named("Digit6")
      [] Is(sc, 8) -> Named("Digit7")
      [] Is(sc, 9) -> Named("Digit8")
      [] Is(sc, 10) -> Named("Digit9")
      [] Is(sc, 11) -> Named("Digit0")
      [] Is(sc, 12) -> Named("Minus")
      [] Is(sc, 13) -> Named("Equal")
      [] Is(sc, 14) -> Named("Backspace")
      [] Is(sc, 15) -> Named("Tab")
      [] Is(sc, 16) -> Named("KeyQ")
      [] Is(sc, 17) -> Named("KeyW")
      [] Is(sc, 18) -> Named("KeyE")
      [] Is(sc, 19) -> Named("KeyR")
      [] Is(sc, 20) -> Named("KeyT")
      [] Is(sc, 21) -> Named("KeyY")
      [] Is(sc, 22) -> Named("KeyU")
      [] Is(sc, 23) -> Named("KeyI")
      [] Is(sc, 24) -> Named("KeyO")
      [] Is(sc, 25) -> Named("KeyP")
      [] Is(sc, 26) -> Named("BracketLeft")
      [] Is(sc, 27) -> Named("BracketRight")
      [] Is(sc, 28) -> Named("Enter")
      [] Is(sc, 29) -> Named("ControlLeft")
      [] Is(sc, 30) -> Named("KeyA")
      [] Is(sc, 31) -> Named("KeyS")
      [] Is(sc, 32) -> Named("KeyD")
      [] Is(sc, 33) -> Named("KeyF")
      [] Is(sc, 34) -> Named("KeyG")
      [] Is(sc, 35) -> Named("KeyH")
      [] Is(sc, 36) -> Named("KeyJ")
      [] Is(sc, 37) -> Named("KeyK")
      [] Is(sc, 38) -> Named("KeyL")
      [] Is(sc, 39) -> Named("Semicolon")
      [] Is(sc, 41) -> Named("Backquote")
      [] Is(sc, 42) -> Named("ShiftLeft")
      [] Is(sc, 43) -> Named("Backslash")
      [] Is(sc, 44) -> Named("KeyZ")
      [] Is(sc, 45) -> Named("KeyX")
      [] Is(sc, 46) -> Named("KeyC")
      [] Is(sc, 47) -> Named("KeyV")
      [] Is(sc, 48) -> Named("KeyB")
      [] Is(sc, 49) -> Named("KeyN")
      [] Is(sc, 50) -> Named("KeyM")
      [] Is(sc, 51) -> Named("Comma")
      [] Is(sc, 52) -> Named("Period")
      [] Is(sc, 53) -> Named("Slash")
      [] Is(sc, 54) -> Named("ShiftRight")
      [] Is(sc, 56) -> Named("AltLeft")
      [] Is(sc, 57) -> Named("Space")
      [] Is(sc, 58) -> Named("CapsLock")
      [] Is(sc, 59) -> Named("F1")
      [] Is(sc, 60) -> Named("F2")
      [] Is(sc, 61) -> Named("F3")
      [] Is(sc, 62) -> Named("F4")
      [] Is(sc, 63) -> Named("F5")
      [] Is(sc, 64) -> Named("F6")
      [] Is(sc, 65) -> Named("F7")
      [] Is(sc, 66) -> Named("F8")
      [] Is(sc, 67) -> Named("F9")
      [] Is(sc, 68) -> Named("F10")
      [] Is(sc, 70) -> Named("ScrollLock")
      [] Is(sc, 87) -> Named("F11")
      [] Is(sc, 88) -> Named("F12")
      [] Is(sc, 97) -> Named("ControlRight")
      [] Is(sc, 99) -> Named("PrintScreen")
      [] Is(sc, 100) -> Named("AltRight")
      [] Is(sc, 102) -> Named("Home")
      [] Is(sc, 103) -> Named("ArrowUp")
      [] Is(sc, 104) -> Named("PageUp")
      [] Is(sc, 105) -> Named("ArrowLeft")
      [] Is(sc, 106) -> Named("ArrowRight")
      [] Is(sc, 107) -> Named("End")
      [] Is(sc, 108) -> Named("ArrowDown")
      [] Is(sc, 109) -> Named("PageDown")
      [] Is(sc, 110) -> Named("Insert")
      [] Is(sc, 111) -> Named("Delete")
      [] Is(sc, 113) -> Named("AudioVolumeMute")
      [] Is(sc, 114) -> Named("AudioVolumeDown")
      [] Is(sc, 115) -> Named("AudioVolumeUp")
      [] Is(sc, 119) -> Named("Pause")
      [] Is(sc, 125) -> Named("SuperLeft")
      [] Is(sc, 127) -> Named("ContextMenu")
      [] Is(sc, 143) -> Named("Fn")
      [] Is(sc, 158) -> Named("BrowserBack")
      [] Is(sc, 159) -> Named("BrowserForward")
      [] OTHER -> Unidentified(XKB(sc))

to_scancode(self) == None

KeysInit ==
    /\ kpc = "input"
    /\ scancode \in Scancodes
    /\ key = NoKey
    /\ back = None

KeysIdle ==
    /\ kpc = "idle"
    /\ scancode = U32Lit(0)
    /\ key = NoKey
    /\ back = None

\* KeyCode::from_scancode(scancode)
FromScancode ==
    /\ kpc = "input"
    /\ key' = from_scancode(scancode)
    /\ kpc' = "from"
    /\ UNCHANGED <<scancode, back, builderVars, loopVars, handleVars, panic>>

\* key.to_scancode()
ToScancode ==
    /\ kpc = "from"
    /\ back' = to_scancode(key)
    /\ kpc' = "to"
    /\ UNCHANGED <<scancode, key, builderVars, loopVars, handleVars, panic>>

KeysNext == FromScancode \/ ToScancode

-----------------------------------------------------------------------------
(* WindowBuilderExtUnix for WindowBuilder *)

\* Longest chain of setter calls on one builder.
MaxCalls == 3

\* Memory holding the XVisualInfo records a caller may point with_x11_visual
\* at; address 0 is the null pointer and holds nothing.
NullPtr == 0

VisualMem == (1 :> <<"XVisualInfo", "rgb24">>) @@ (2 :> <<"XVisualInfo", "argb32">>)

Pointers == {NullPtr} \cup DOMAIN VisualMem

GarbageVisual == <<"XVisualInfo", "garbage">>

Segfault == "SIGSEGV"

\* ptr::read(p as *const XVisualInfo): the record at p.  Reading through a
\* pointer that holds no record is undefined behaviour: the read either kills
\* the process or yields whatever bytes are there.
ptr_read(p) ==
    IF p \in DOMAIN VisualMem
    THEN {<<"value", VisualMem[p]>>}
    ELSE {<<"fault", Segfault>>, <<"value", GarbageVisual>>}
             \cup {<<"value", VisualMem[q]>> : q \in DOMAIN VisualMem}

ScreenIds == {-1, 1}

Strings == {"a", "b"}

XWindowTypes == {<<>>, <<"Normal">>, <<"Dock", "Utility">>}

\* the sizes a caller passes as S: Into<Size>
Sizes == {<<"PhysicalSize", 2, 3>>, <<"LogicalSize", 2, 3>>}

\* S::into(): PhysicalSize -> Size::Physical, LogicalSize -> Size::Logical
Into_Size(sz) ==
    IF sz[1] = "PhysicalSize" THEN <<"Size::Physical", sz[2], sz[3]>>
    ELSE <<"Size::Logical", sz[2], sz[3]>>

\* PlatformSpecificWindowBuilderAttributes::default()
DefaultPlatformSpecific ==
    [visual_infos |-> None,
     screen_id |-> None,
     class |-> None,
     override_redirect |-> FALSE,
     x11_window_types |-> <<"Normal">>,
     gtk_theme_variant |-> None,
     resize_increments |-> None,
     base_size |-> None,
     app_id |-> None]

Fields == DOMAIN DefaultPlatformSpecific

\* WindowBuilder::new(): the generic attributes are opaque here
NewWindowBuilder ==
    [window |-> "WindowAttributes", platform_specific |-> DefaultPlatformSpecific]

\* visual_infos is the record ptr::read produced
with_x11_visual(self, visual_infos) ==
    [self EXCEPT !.platform_specific.visual_infos = Some(visual_infos)]

with_x11_screen(self, screen_id) ==
    [self EXCEPT !.platform_specific.screen_id = Some(screen_id)]

with_class(self, instance, class) ==
    [self EXCEPT !.platform_specific.class = Some(<<instance, class>>)]

with_override_redirect_Sticky(self, override_redirect) ==
    [self EXCEPT !.platform_specific.override_redirect = @ \/ override_redirect]

with_override_redirect(self, override_redirect) ==
    [self EXCEPT !.platform_specific.override_redirect = override_redirect]

with_x11_window_type(self, x11_window_types) ==
    [self EXCEPT !.platform_specific.x11_window_types = x11_window_types]

with_gtk_theme_variant(self, variant) ==
    [self EXCEPT !.platform_specific.gtk_theme_variant = Some(variant)]

with_resize_increments(self, increments) ==
    [self EXCEPT !.platform_specific.resize_increments = Some(Into_Size(increments))]

with_base_size_WrongField(self, base_size) ==
    [self EXCEPT !.platform_specific.resize_increments = Some(Into_Size(base_size))]

with_base_size(self, base_size) ==
    [self EXCEPT !.platform_specific.base_size = Some(Into_Size(base_size))]

with_app_id(self, app_id) ==
    [self EXCEPT !.platform_specific.app_id = Some(app_id)]

BuilderInit ==
    /\ builder = NewWindowBuilder
    /\ calls = <<>>

BuilderIdle == BuilderInit

\* a setter call that returns the builder res
Returns(op, arg, res) ==
    /\ builder' = res
    /\ calls' = Append(calls, [op |-> op, arg |-> arg])
    /\ UNCHANGED <<panic, keyVars, loopVars, handleVars>>

CanCall == Len(calls) < MaxCalls /\ panic = None

WithX11Visual ==
    /\ CanCall
    /\ \E p \in Pointers : \E r \in ptr_read(p) :
          IF r[1] = "fault"
          THEN /\ panic' = Some(r[2])
               /\ UNCHANGED <<builderVars, keyVars, loopVars, handleVars>>
          ELSE Returns("with_x11_visual", p, with_x11_visual(builder, r[2]))

WithX11Screen ==
    /\ CanCall
    /\ \E screen_id \in ScreenIds :
          Returns("with_x11_screen", screen_id, with_x11_screen(builder, screen_id))

WithClass ==
    /\ CanCall
    /\ \E a \in Strings, b \in Strings :
          Returns("with_class", <<a, b>>, with_class(builder, a, b))

WithOverrideRedirect ==
    /\ CanCall
    /\ \E override_redirect \in BOOLEAN :
          Returns("with_override_redirect", override_redirect,
                  with_override_redirect(builder, override_redirect))

WithX11WindowType ==
    /\ CanCall
    /\ \E x11_window_types \in XWindowTypes :
          Returns("with_x11_window_type", x11_window_types,
                  with_x11_window_type(builder, x11_window_types))

WithGtkThemeVariant ==
    /\ CanCall
    /\ \E variant \in Strings :
          Returns("with_gtk_theme_variant", variant,
                  with_gtk_theme_variant(builder, variant))

WithResizeIncrements ==
    /\ CanCall
    /\ \E increments \in Sizes :
          Returns("with_resize_increments", increments,
                  with_resize_increments(builder, increments))

WithBaseSize ==
    /\ CanCall
    /\ \E base_size \in Sizes :
          Returns("with_base_size", base_size, with_base_size(builder, base_size))

WithAppId ==
    /\ CanCall
    /\ \E app_id \in Strings :
          Returns("with_app_id", app_id, with_app_id(builder, app_id))

BuilderNext ==
    \/ WithX11Visual
    \/ WithX11Screen
    \/ WithClass
    \/ WithOverrideRedirect
    \/ WithX11WindowType
    \/ WithGtkThemeVariant
    \/ WithResizeIncrements
    \/ WithBaseSize
    \/ WithAppId

-----------------------------------------------------------------------------
(* EventLoopExtUnix for EventLoop *)

\* Most constructor calls in one run.
MaxCtorCalls == 3

NoCtor == [op |-> "none", main |-> TRUE, backend |-> None, ret |-> None, n |-> 0]

\* Result<T, E>, and a call that panics instead of returning
Ok(v) == <<"Ok", v>>

Err(e) == <<"Err", e>>

Panics(msg) == <<"Panic", msg>>

XNotSupported == "XNotSupported"

ConnectError == "ConnectError"

NotMainThread == "must be created on the main thread"

\* platform_impl::EventLoop, the backend constructors.  The _any_thread ones
\* open the connection and fail when the server cannot be reached; the others
\* first insist on the main thread.  n numbers the connection opened.
LinuxEventLoop_new_x11_any_thread(e, n) ==
    IF e.x THEN Ok(<<"X", n>>) ELSE Err(XNotSupported)

LinuxEventLoop_new_wayland_any_thread(e, n) ==
    IF e.wayland THEN Ok(<<"Wayland", n>>) ELSE Err(ConnectError)

LinuxEventLoop_new_x11(e, main, n) ==
    IF ~main THEN Panics(NotMainThread) ELSE LinuxEventLoop_new_x11_any_thread(e, n)

LinuxEventLoop_new_wayland(e, main, n) ==
    IF ~main THEN Panics(NotMainThread) ELSE LinuxEventLoop_new_wayland_any_thread(e, n)

\* EventLoop { event_loop, _marker: PhantomData }
wrap_ev(event_loop) == <<"EventLoop", event_loop, "PhantomData">>

\* Result::map(wrap_ev); a panic of the callee passes through both this and
\* expect
map_wrap_ev(r) == IF r[1] = "Ok" THEN Ok(wrap_ev(r[2])) ELSE r

\* Result::expect(msg)
expect(r, msg) ==
    CASE r[1] = "Ok" -> r[2]
      [] r[1] = "Err" -> Panics(<<msg, r[2]>>)
      [] OTHER -> r

IsPanic(r) == r[1] = "Panic"

\* wrap_ev(x) where evaluating x may have panicked
wrap_ev_of(x) == IF IsPanic(x) THEN x ELSE wrap_ev(x)

\* The constructors, as functions of what the backend constructor did.
new_x11_any_thread(backend) == map_wrap_ev(backend)

new_wayland_any_thread(backend) ==
    wrap_ev_of(expect(backend, "failed to open Wayland connection"))

new_x11_Expect(backend) ==
    wrap_ev_of(expect(backend, "failed to open X11 connection"))

new_x11(backend) == map_wrap_ev(backend)

new_wayland(backend) ==
    wrap_ev_of(expect(backend, "failed to open Wayland connection"))

LoopInit ==
    /\ env \in [x : BOOLEAN, wayland : BOOLEAN]
    /\ loops = <<>>
    /\ ctor = NoCtor

LoopIdle ==
    /\ env = [x |-> TRUE, wayland |-> TRUE]
    /\ loops = <<>>
    /\ ctor = NoCtor

CanConstruct == ctor.n < MaxCtorCalls /\ panic = None

\* a constructor call on the main thread or off it; res is what the call
\* did: a panic, or the value returned; loop is the EventLoop in it, if any
Constructed(op, main, backend, res, loop) ==
    /\ ctor' = [op |-> op, main |-> main, backend |-> backend, ret |-> res,
                n |-> ctor.n + 1]
    /\ panic' = IF IsPanic(res) THEN Some(res[2]) ELSE None
    /\ loops' = IF loop = None THEN loops ELSE Append(loops, loop[2])
    /\ UNCHANGED <<env, keyVars, builderVars, handleVars>>

\* the EventLoop inside a Result<EventLoop, _>
LoopOfResult(res) == IF res[1] = "Ok" THEN Some(res[2]) ELSE None

\* the EventLoop a constructor without a Result returned
LoopOfSelf(res) == IF IsPanic(res) THEN None ELSE Some(res)

NewX11AnyThread ==
    /\ CanConstruct
    /\ \E main \in BOOLEAN :
          LET backend == LinuxEventLoop_new_x11_any_thread(env, ctor.n + 1)
              res == new_x11_any_thread(backend)
          IN Constructed("new_x11_any_thread", main, backend, res, LoopOfResult(res))

NewWaylandAnyThread ==
    /\ CanConstruct
    /\ \E main \in BOOLEAN :
          LET backend == LinuxEventLoop_new_wayland_any_thread(env, ctor.n + 1)
              res == new_wayland_any_thread(backend)
          IN Constructed("new_wayland_any_thread", main, backend, res, LoopOfSelf(res))

NewX11 ==
    /\ CanConstruct
    /\ \E main \in BOOLEAN :
          LET backend == LinuxEventLoop_new_x11(env, main, ctor.n + 1)
              res == new_x11(backend)
          IN Constructed("new_x11", main, backend, res, LoopOfResult(res))

NewWayland ==
    /\ CanConstruct
    /\ \E main \in BOOLEAN :
          LET backend == LinuxEventLoop_new_wayland(env, main, ctor.n + 1)
              res == new_wayland(backend)
          IN Constructed("new_wayland", main, backend, res, LoopOfSelf(res))

LoopNext == NewX11AnyThread \/ NewWaylandAnyThread \/ NewX11 \/ NewWayland

-----------------------------------------------------------------------------
(* WindowExtUnix, EventLoopWindowTargetExtUnix, MonitorHandleExtUnix *)

\* Most Arc<XConnection> clones the caller holds at one time.
MaxRefs == 2

WindowNames == {"w1", "w2"}

TargetNames == {"t1"}

Backends == {"X", "Wayland"}

\* The backend window of a Window, by backend: what the backend's own
\* accessors return for it.  The X11 handles of the model are those of one
\* X11 event loop and share its XConnection.
XDisplayPtr == 7000

XcbPtr == 7100

WlDisplayPtr == 8000

XConnectionArc == <<"Arc", "XConnection">>

LinuxWindow(w, v) ==
    IF v = "X"
    THEN <<"X", [xlib_window |-> IF w = "w1" THEN 101 ELSE 102,
                 xlib_display |-> XDisplayPtr,
                 xlib_screen_id |-> 0,
                 xlib_xconnection |-> XConnectionArc,
                 xcb_connection |-> XcbPtr]>>
    ELSE <<"Wayland", [surface |-> IF w = "w1" THEN 8101 ELSE 8102,
                       display |-> WlDisplayPtr]>>

LinuxEventLoopWindowTarget(v) ==
    IF v = "X"
    THEN <<"X", [x_connection |-> XConnectionArc]>>
    ELSE <<"Wayland", [display |-> WlDisplayPtr]>>

\* Arc<T>: clone adds a strong reference, drop takes one away and releases
\* the value with the last one.
Arc_clone(a) == [a EXCEPT !.strong = @ + 1]

Arc_drop(a) ==
    IF a.strong = 1 THEN [strong |-> 0, released |-> TRUE]
    ELSE [a EXCEPT !.strong = @ - 1]

\* platform_impl::EventLoopWindowTarget::is_wayland
p_is_wayland(p) == p[1] = "Wayland"

\* impl EventLoopWindowTargetExtUnix for EventLoopWindowTarget
is_wayland(self) == p_is_wayland(self.p)

is_x11_NoNegation(self) == p_is_wayland(self.p)

is_x11(self) == ~p_is_wayland(self.p)

Target_xlib_xconnection(self) ==
    IF self.p[1] = "X" THEN Some(self.p[2].x_connection) ELSE None

Target_wayland_display(self) ==
    IF self.p[1] = "Wayland" THEN Some(self.p[2].display) ELSE None

\* the XConnection allocation after e.x_connection().clone()
Target_x_connection_clone_Borrowed(a) == a

Target_x_connection_clone(a) == Arc_clone(a)

\* impl WindowExtUnix for Window
xlib_window(self) ==
    IF self.window[1] = "X" THEN Some(self.window[2].xlib_window) ELSE None

xlib_display(self) ==
    IF self.window[1] = "X" THEN Some(self.window[2].xlib_display) ELSE None

xlib_screen_id(self) ==
    IF self.window[1] = "X" THEN Some(self.window[2].xlib_screen_id) ELSE None

Window_xlib_xconnection(self) ==
    IF self.window[1] = "X" THEN Some(self.window[2].xlib_xconnection) ELSE None

xcb_connection(self) ==
    IF self.window[1] = "X" THEN Some(self.window[2].xcb_connection) ELSE None

wayland_surface(self) ==
    IF self.window[1] = "Wayland" THEN Some(self.window[2].surface) ELSE None

Window_wayland_display_AnyArm(self) ==
    IF self.window[1] = "Wayland" THEN Some(self.window[2].display)
    ELSE Some(self.window[2].xlib_display)

Window_wayland_display(self) ==
    IF self.window[1] = "Wayland" THEN Some(self.window[2].display) ELSE None

\* the old readiness of the Wayland backend: ready once the window has been
\* asked about
is_ready_Configured(self) == self.window[1] = "X" \/ ret.h # "none"

is_ready(self) == TRUE

\* impl MonitorHandleExtUnix for MonitorHandle
native_id(self) == self.inner.native_identifier

NoRet == [h |-> "none", acc |-> "none", value |-> None]

WindowAccessors ==
    {"xlib_window", "xlib_display", "xlib_screen_id", "xlib_xconnection",
     "xcb_connection", "wayland_surface", "wayland_display", "is_ready"}

TargetAccessors == {"is_wayland", "is_x11", "xlib_xconnection", "wayland_display"}

Watchable ==
    (WindowNames \X WindowAccessors) \cup (TargetNames \X TargetAccessors)
        \cup {<<"m1", "native_id">>}

\* the handles that hold the XConnection
XHolders(ws, ts, live) ==
    {w \in WindowNames \cap live : ws[w].window[1] = "X"}
        \cup {t \in TargetNames \cap live : ts[t].p[1] = "X"}

HandlesInit ==
    /\ windows \in {[w \in WindowNames |-> [window |-> LinuxWindow(w, f[w])]] :
                       f \in [WindowNames -> Backends]}
    /\ targets \in {[t \in TargetNames |-> [p |-> LinuxEventLoopWindowTarget(f[t])]] :
                       f \in [TargetNames -> Backends]}
    /\ monitor = [inner |-> [native_identifier |-> 7]]
    /\ alive = WindowNames \cup TargetNames
    /\ conn = [strong |-> Cardinality(XHolders(windows, targets, alive)),
               released |-> FALSE]
    /\ refs = 0
    /\ ret = NoRet
    /\ watch \in Watchable
    /\ firstv = None

HandlesIdle ==
    /\ windows = [w \in WindowNames |-> [window |-> LinuxWindow(w, "X")]]
    /\ targets = [t \in TargetNames |-> [p |-> LinuxEventLoopWindowTarget("X")]]
    /\ monitor = [inner |-> [native_identifier |-> 7]]
    /\ alive = {}
    /\ conn = [strong |-> 0, released |-> FALSE]
    /\ refs = 0
    /\ ret = NoRet
    /\ watch = <<"m1", "native_id">>
    /\ firstv = None

\* the accessor acc of the handle h returns value
Returned(h, acc, value) ==
    /\ ret' = [h |-> h, acc |-> acc, value |-> value]
    /\ firstv' = IF watch = <<h, acc>> /\ firstv = None THEN Some(value) ELSE firstv
    /\ UNCHANGED <<windows, targets, monitor, alive, watch>>
    /\ UNCHANGED <<keyVars, builderVars, loopVars, panic>>

Pure == UNCHANGED <<conn, refs>>

IsWayland == \E t \in TargetNames \cap alive :
    Returned(t, "is_wayland", is_wayland(targets[t])) /\ Pure

IsX11 == \E t \in TargetNames \cap alive :
    Returned(t, "is_x11", is_x11(targets[t])) /\ Pure

TargetXlibXconnection == \E t \in TargetNames \cap alive :
    /\ Returned(t, "xlib_xconnection", Target_xlib_xconnection(targets[t]))
    /\ IF targets[t].p[1] = "X"
       THEN /\ refs < MaxRefs
            /\ conn' = Target_x_connection_clone(conn)
            /\ refs' = refs + 1
       ELSE Pure

TargetWaylandDisplay == \E t \in TargetNames \cap alive :
    Returned(t, "wayland_display", Target_wayland_display(targets[t])) /\ Pure

XlibWindow == \E w \in WindowNames \cap alive :
    Returned(w, "xlib_window", xlib_window(windows[w])) /\ Pure

XlibDisplay == \E w \in WindowNames \cap alive :
    Returned(w, "xlib_display", xlib_display(windows[w])) /\ Pure

XlibScreenId == \E w \in WindowNames \cap alive :
    Returned(w, "xlib_screen_id", xlib_screen_id(windows[w])) /\ Pure

\* w.xlib_xconnection() of the backend window hands out a clone of its Arc
WindowXlibXconnection == \E w \in WindowNames \cap alive :
    /\ Returned(w, "xlib_xconnection", Window_xlib_xconnection(windows[w]))
    /\ IF windows[w].window[1] = "X"
       THEN /\ refs < MaxRefs
            /\ conn' = Arc_clone(conn)
            /\ refs' = refs + 1
       ELSE Pure

XcbConnection == \E w \in WindowNames \cap alive :
    Returned(w, "xcb_connection", xcb_connection(windows[w])) /\ Pure

WaylandSurface == \E w \in WindowNames \cap alive :
    Returned(w, "wayland_surface", wayland_surface(windows[w])) /\ Pure

WindowWaylandDisplay == \E w \in WindowNames \cap alive :
    Returned(w, "wayland_display", Window_wayland_display(windows[w])) /\ Pure

IsReady == \E w \in WindowNames \cap alive :
    Returned(w, "is_ready", is_ready(windows[w])) /\ Pure

NativeId == Returned("m1", "native_id", native_id(monitor)) /\ Pure

\* a Window or an EventLoopWindowTarget goes out of scope; one of the X11
\* backend gives up its Arc<XConnection>
DropHandle == \E h \in alive :
    /\ alive' = alive \ {h}
    /\ conn' = IF h \in XHolders(windows, targets, alive) THEN Arc_drop(conn) ELSE conn
    /\ UNCHANGED <<windows, targets, monitor, refs, ret, watch, firstv>>
    /\ UNCHANGED <<keyVars, builderVars, loopVars, panic>>

\* the caller drops one of the Arc<XConnection> it was handed
DropRef ==
    /\ refs > 0
    /\ refs' = refs - 1
    /\ conn' = Arc_drop(conn)
    /\ UNCHANGED <<windows, targets, monitor, alive, ret, watch, firstv>>
    /\ UNCHANGED <<keyVars, builderVars, loopVars, panic>>

HandlesNext ==
    \/ IsWayland
    \/ IsX11
    \/ TargetXlibXconnection
    \/ TargetWaylandDisplay
    \/ XlibWindow
    \/ XlibDisplay
    \/ XlibScreenId
    \/ WindowXlibXconnection
    \/ XcbConnection
    \/ WaylandSurface
    \/ WindowWaylandDisplay
    \/ IsReady
    \/ NativeId
    \/ DropHandle
    \/ DropRef

-----------------------------------------------------------------------------
(* Specifications *)

\* Each specification runs one part of the module; the state of the other
\* parts stays as constructed.
InitKeys == KeysInit /\ BuilderIdle /\ LoopIdle /\ HandlesIdle /\ panic = None

SpecKeys == InitKeys /\ [][KeysNext]_vars

InitBuilder == BuilderInit /\ KeysIdle /\ LoopIdle /\ HandlesIdle /\ panic = None

SpecBuilder == InitBuilder /\ [][BuilderNext]_vars

InitLoop == LoopInit /\ KeysIdle /\ BuilderIdle /\ HandlesIdle /\ panic = None

SpecLoop == InitLoop /\ [][LoopNext]_vars

InitHandles == HandlesInit /\ KeysIdle /\ BuilderIdle /\ LoopIdle /\ panic = None

SpecHandles == InitHandles /\ [][HandlesNext]_vars

-----------------------------------------------------------------------------
(* The scancodes the match of from_scancode lists, as ranges. *)

TableNumbers ==
    (1..39) \cup (41..54) \cup (56..68) \cup {70, 87, 88, 97, 99, 100}
        \cup (102..111) \cup (113..115) \cup {119, 125, 127, 143, 158, 159}

TableCodes == {U32Lit(n) : n \in TableNumbers}

IsNamedKey(k) == Len(k) = 1 /\ k # NoKey

\* C1: from_scancode is total: a code of the forward table gives the named
\* key of its entry (1 -> Escape, 57 -> Space), every other code, the gaps
\* 40, 55 and 69 and the far code 9999 included, gives
\* Unidentified(NativeKeyCode::XKB(code)) with exactly the input code.
C1_FromScancodeTotal ==
    kpc # "input" =>
        /\ scancode \in TableCodes => IsNamedKey(key)
        /\ scancode \notin TableCodes => key = Unidentified(XKB(scancode))
        /\ scancode = <<0, 1>> => key = Named("Escape")
        /\ scancode = <<0, 57>> => key = Named("Space")
        /\ scancode \in {<<0, 40>>, <<0, 55>>, <<0, 69>>, <<0, 9999>>, U32Max}
              => key = <<"Unidentified", <<"XKB", scancode>>>>

C1_Witness ==
    /\ kpc = "from"
    /\ scancode = FarScancode
    /\ key = Unidentified(XKB(FarScancode))

-----------------------------------------------------------------------------
(* Builder option setters *)

Setters ==
    {"with_x11_visual", "with_x11_screen", "with_class", "with_override_redirect",
     "with_x11_window_type", "with_gtk_theme_variant", "with_resize_increments",
     "with_base_size", "with_app_id"}

\* the field of the options record a setter is for
FieldOf(op) ==
    CASE op = "with_x11_visual" -> "visual_infos"
      [] op = "with_x11_screen" -> "screen_id"
      [] op = "with_class" -> "class"
      [] op = "with_override_redirect" -> "override_redirect"
      [] op = "with_x11_window_type" -> "x11_window_types"
      [] op = "with_gtk_theme_variant" -> "gtk_theme_variant"
      [] op = "with_resize_increments" -> "resize_increments"
      [] op = "with_base_size" -> "base_size"
      [] op = "with_app_id" -> "app_id"

\* the arguments a caller may pass to a setter
ArgsOf(op) ==
    CASE op = "with_x11_visual" -> DOMAIN VisualMem
      [] op = "with_x11_screen" -> ScreenIds
      [] op = "with_class" -> Strings \X Strings
      [] op = "with_override_redirect" -> BOOLEAN
      [] op = "with_x11_window_type" -> XWindowTypes
      [] op = "with_gtk_theme_variant" -> Strings
      [] op = "with_resize_increments" -> Sizes
      [] op = "with_base_size" -> Sizes
      [] op = "with_app_id" -> Strings

\* the value the caller asked the field to take
Requested(op, arg) ==
    CASE op = "with_x11_visual" -> Some(VisualMem[arg])
      [] op = "with_x11_screen" -> Some(arg)
      [] op = "with_class" -> Some(arg)
      [] op = "with_override_redirect" -> arg
      [] op = "with_x11_window_type" -> arg
      [] op = "with_gtk_theme_variant" -> Some(arg)
      [] op = "with_resize_increments" ->
            Some(<<IF arg[1] = "PhysicalSize" THEN "Size::Physical" ELSE "Size::Logical",
                   arg[2], arg[3]>>)
      [] op = "with_base_size" ->
            Some(<<IF arg[1] = "PhysicalSize" THEN "Size::Physical" ELSE "Size::Logical",
                   arg[2], arg[3]>>)
      [] op = "with_app_id" -> Some(arg)

\* the setter op applied to the builder b with an argument whose pointer,
\* if any, is valid
Apply(op, arg, b) ==
    CASE op = "with_x11_visual" -> with_x11_visual(b, VisualMem[arg])
      [] op = "with_x11_screen" -> with_x11_screen(b, arg)
      [] op = "with_class" -> with_class(b, arg[1], arg[2])
      [] op = "with_override_redirect" -> with_override_redirect(b, arg)
      [] op = "with_x11_window_type" -> with_x11_window_type(b, arg)
      [] op = "with_gtk_theme_variant" -> with_gtk_theme_variant(b, arg)
      [] op = "with_resize_increments" -> with_resize_increments(b, arg)
      [] op = "with_base_size" -> with_base_size(b, arg)
      [] op = "with_app_id" -> with_app_id(b, arg)

CallsTo(op) == {i \in 1..Len(calls) : calls[i].op = op}

LastCallTo(op) == calls[CHOOSE i \in CallsTo(op) : \A j \in CallsTo(op) : j <= i]

\* a call within the setter's contract: with_x11_visual needs a pointer to a
\* record
InContract(c) == c.op = "with_x11_visual" => c.arg \in DOMAIN VisualMem

\* C4: every setter is last-write-wins: after any chain of calls the field of
\* each setter that was called holds the value of the last call to it; a
\* second call with the same value gives the builder the first call gave;
\* and with_override_redirect(true) then with_override_redirect(false)
\* leaves override_redirect false.
C4_LastWriteWins ==
    /\ \A op \in Setters :
          (CallsTo(op) # {} /\ InContract(LastCallTo(op)))
             => builder.platform_specific[FieldOf(op)]
                   = Requested(op, LastCallTo(op).arg)
    /\ \A op \in Setters : \A arg \in ArgsOf(op) :
          Apply(op, arg, Apply(op, arg, builder)) = Apply(op, arg, builder)
    /\ with_override_redirect(with_override_redirect(builder, TRUE), FALSE)
          .platform_specific.override_redirect = FALSE

C4_Witness ==
    /\ Len(calls) = 3
    /\ calls[1] = [op |-> "with_override_redirect", arg |-> TRUE]
    /\ calls[2] = [op |-> "with_app_id", arg |-> "a"]
    /\ calls[3] = [op |-> "with_override_redirect", arg |-> FALSE]
    /\ builder.platform_specific.override_redirect = FALSE

C5_Frame ==
    Len(calls') = Len(calls) + 1 =>
        /\ \A f \in Fields \ {FieldOf(calls'[Len(calls')].op)} :
              builder'.platform_specific[f] = builder.platform_specific[f]
        /\ builder'.window = builder.window

\* the builder a chain of in-contract setter calls gives, from a new builder
RECURSIVE Replay(_)
Replay(cs) ==
    IF cs = <<>> THEN NewWindowBuilder
    ELSE Apply(cs[Len(cs)].op, cs[Len(cs)].arg, Replay(SubSeq(cs, 1, Len(cs) - 1)))

\* the chain cs with its last two calls in the other order
SwapLastTwo(cs) ==
    SubSeq(cs, 1, Len(cs) - 2) \o <<cs[Len(cs)], cs[Len(cs) - 1]>>

C5_Commute ==
    (/\ Len(calls) >= 2
     /\ \A i \in 1..Len(calls) : InContract(calls[i])
     /\ calls[Len(calls)].op # calls[Len(calls) - 1].op)
        => builder = Replay(SwapLastTwo(calls))

\* C5: a setter call changes no field of the options record but its own (and
\* nothing else of the builder), and setters of distinct fields commute: the
\* builder a chain gives is the one the chain gives with its last two calls,
\* when they are to distinct setters, made in the other order.
C5_OneFieldAndCommute == []C5_Commute /\ [][C5_Frame]_vars

C5_Witness ==
    /\ Len(calls) = 2
    /\ calls[1].op = "with_base_size"
    /\ calls[2].op = "with_x11_screen"
    /\ builder.platform_specific.base_size # None
    /\ builder.platform_specific.screen_id # None
    /\ builder.platform_specific.resize_increments = None

\* the parameter names of with_class, in order, in the trait declaration and
\* in the implementation
with_class_decl == <<"class", "instance">>

with_class_impl == <<"instance", "class">>

\* the argument of args that the parameter list params calls name
ArgNamed(params, args, name) == args[CHOOSE i \in 1..2 : params[i] = name]

\* C7: with_class(a, b) stores Some((a, b)), a taken as the instance name and
\* b as the class name, and this agrees with the parameter names of the
\* trait declaration: the stored pair is (the argument the declaration calls
\* instance, the argument it calls class).
C7_ClassAgreesWithDeclaration ==
    (calls # <<>> /\ calls[Len(calls)].op = "with_class") =>
        LET args == calls[Len(calls)].arg IN
        /\ builder.platform_specific.class = Some(<<args[1], args[2]>>)
        /\ builder.platform_specific.class
              = Some(<<ArgNamed(with_class_impl, args, "instance"),
                       ArgNamed(with_class_impl, args, "class")>>)
        /\ builder.platform_specific.class
              = Some(<<ArgNamed(with_class_decl, args, "instance"),
                       ArgNamed(with_class_decl, args, "class")>>)

\* C3: to_scancode inverts from_scancode on the forward table:
\* to_scancode(from_scancode(c)) = Some(c) for every code c of the table.
C3_RoundTrip ==
    (kpc = "to" /\ scancode \in TableCodes) => back = Some(scancode)

X11Ctors == {"new_x11", "new_x11_any_thread"}

WaylandCtors == {"new_wayland", "new_wayland_any_thread"}

\* C6: a connection failure of the backend constructor comes out through the
\* channel of the signature: new_x11 and new_x11_any_thread return
\* Err(XNotSupported) and the process lives; new_wayland and
\* new_wayland_any_thread kill it with "failed to open Wayland connection";
\* and when the backend constructor succeeds each returns an EventLoop around
\* exactly the backend's event loop.
C6_FailureChannel ==
    ctor.op # "none" =>
        /\ (ctor.op \in X11Ctors /\ ctor.backend[1] = "Err")
              => /\ ctor.ret = <<"Err", "XNotSupported">>
                 /\ panic = None
        /\ (ctor.op \in WaylandCtors /\ ctor.backend[1] = "Err")
              => /\ ctor.ret[1] = "Panic"
                 /\ panic # None
                 /\ panic[2][1] = "failed to open Wayland connection"
        /\ (ctor.op \in X11Ctors /\ ctor.backend[1] = "Ok")
              => /\ ctor.ret = <<"Ok", <<"EventLoop", ctor.backend[2], "PhantomData">>>>
                 /\ panic = None
                 /\ loops[Len(loops)][2] = ctor.backend[2]
        /\ (ctor.op \in WaylandCtors /\ ctor.backend[1] = "Ok")
              => /\ ctor.ret = <<"EventLoop", ctor.backend[2], "PhantomData">>
                 /\ panic = None
                 /\ loops[Len(loops)][2] = ctor.backend[2]

C6_Witness ==
    /\ ~env.x
    /\ Len(loops) = 1
    /\ loops[1][2][1] = "Wayland"
    /\ ctor.op = "new_x11"
    /\ ctor.ret = Err(XNotSupported)
    /\ panic = None

-----------------------------------------------------------------------------
(* Native-handle accessors *)

VariantOf(h) == IF h \in WindowNames THEN windows[h].window[1] ELSE targets[h].p[1]

XAccessors ==
    {"xlib_window", "xlib_display", "xlib_screen_id", "xlib_xconnection",
     "xcb_connection"}

WaylandAccessors == {"wayland_surface", "wayland_display"}

\* C2: a native-handle accessor of a Window or an EventLoopWindowTarget
\* returns Some exactly when the handle's backend is the accessor's: on X11
\* the xlib_* and xcb_connection accessors are Some and the wayland_* ones
\* None, on Wayland the reverse; this holds of what the accessors would
\* return for every handle and of what the last call did return.
C2_AccessorMatchesVariant ==
    /\ \A w \in WindowNames :
          LET x == windows[w].window[1] = "X"
              self == windows[w]
          IN /\ windows[w].window[1] \in {"X", "Wayland"}
             /\ IsSome(xlib_window(self)) = x
             /\ IsSome(xlib_display(self)) = x
             /\ IsSome(xlib_screen_id(self)) = x
             /\ IsSome(Window_xlib_xconnection(self)) = x
             /\ IsSome(xcb_connection(self)) = x
             /\ IsSome(wayland_surface(self)) = ~x
             /\ IsSome(Window_wayland_display(self)) = ~x
    /\ \A t \in TargetNames :
          LET x == targets[t].p[1] = "X"
          IN /\ targets[t].p[1] \in {"X", "Wayland"}
             /\ IsSome(Target_xlib_xconnection(targets[t])) = x
             /\ IsSome(Target_wayland_display(targets[t])) = ~x
    /\ ret.acc \in XAccessors => IsSome(ret.value) = (VariantOf(ret.h) = "X")
    /\ ret.acc \in WaylandAccessors
          => IsSome(ret.value) = (VariantOf(ret.h) = "Wayland")

C2_Witness ==
    /\ windows["w1"].window[1] = "X"
    /\ windows["w2"].window[1] = "Wayland"
    /\ ret = [h |-> "w1", acc |-> "wayland_surface", value |-> None]

C8_SameAsFirst ==
    (<<ret.h, ret.acc>> = watch /\ firstv # None) => ret.value = firstv[2]

C8_HandleUntouched ==
    alive' = alive =>
        /\ windows' = windows
        /\ targets' = targets
        /\ monitor' = monitor

\* C8: accessors are pure reads: an accessor call leaves the backend variant
\* and the payload of every handle as they were, and every call of an
\* accessor on a handle returns what its first call returned, native_id of
\* the MonitorHandle included.
C8_AccessorsPure == []C8_SameAsFirst /\ [][C8_HandleUntouched]_vars

C8_Witness ==
    /\ watch = <<"w1", "is_ready">>
    /\ firstv = Some(TRUE)
    /\ windows["w1"].window[1] = "Wayland"
    /\ ret = [h |-> "w1", acc |-> "is_ready", value |-> TRUE]
    /\ refs = 2

Holders == Cardinality(XHolders(windows, targets, alive)) + refs

HadConnection == XHolders(windows, targets, WindowNames \cup TargetNames) # {}

\* C9: the XConnection is released exactly when its last holder is dropped:
\* while a live X11 window, a live X11 event-loop target or a handed-out
\* reference holds it, it is not released, and once none holds it, it is.
C9_ReleasedWithLastHolder ==
    /\ conn.released => Holders = 0
    /\ (HadConnection /\ Holders = 0) => conn.released
    /\ conn.strong = Holders

C9_Witness ==
    /\ conn.released
    /\ alive = {}
    /\ refs = 0
    /\ ret.acc = "xlib_xconnection"
    /\ IsSome(ret.value)

\* C10: for every EventLoopWindowTarget exactly one of is_x11() and
\* is_wayland() is true, is_x11() is true exactly when xlib_xconnection() is
\* Some, and is_wayland() exactly when wayland_display() is Some.
C10_BackendTests ==
    \A t \in TargetNames :
        /\ is_x11(targets[t]) # is_wayland(targets[t])
        /\ is_x11(targets[t]) = IsSome(Target_xlib_xconnection(targets[t]))
        /\ is_wayland(targets[t]) = IsSome(Target_wayland_display(targets[t]))

C10_Witness ==
    /\ targets["t1"].p[1] = "X"
    /\ ret = [h |-> "t1", acc |-> "is_x11", value |-> TRUE]

\* the scancodes from_scancode maps to the key k
ScancodesOf(k) == {c \in Scancodes : from_scancode(c) = k}

\* C11: from_scancode is injective: the key returned for a scancode is the
\* key of no other scancode, named key or fallback, so the scancode is
\* determined by the KeyCode.
C11_FromScancodeInjective ==
    kpc # "input" =>
        /\ ScancodesOf(key) = {scancode}
        /\ \A c \in Scancodes : c # scancode => from_scancode(c) # key

C11_Witness ==
    /\ kpc = "to"
    /\ scancode = WrapScancode
    /\ key = <<"Unidentified", <<"XKB", <<1, 1>>>>>>
    /\ from_scancode(U32Lit(1)) = <<"Escape">>

====
